---- MODULE Spec2Model ----
(***************************************************************************)
(* Game-session lifecycle, scoring and aggregation of dacodes_test.        *)
(* The store is the gamesessionmodel table (a sequence of rows, index =    *)
(* primary key), the directory is the usermodel table, and every request   *)
(* handler of main.py is one action that runs to completion.               *)
(***************************************************************************)
EXTENDS Integers, Sequences, FiniteSets, TLC

\* ------------------------------------------------------------------ bounds
MaxUsers == 2
MaxSessions == 2
MaxPage == 2
MaxPerPage == 2

\* ------------------------------------------------------- program constants
ACTIVE == "active"
STOPPED == "stopped"
EXPIRED == "expired"

EXPIRED_THRESHOLD_IN_SECONDS == 30 * 60 * 60
TargetMs == 10000
HTTP_200_OK == 200
HTTP_404_NOT_FOUND == 404

\* The people who register, in the order in which they do.
Registrants == <<"cyd", "ana", "bob", "dee">>

\* ------------------------------------------------------------------- time
\* A timestamp is <<day, second of day, microsecond>>; NULL is <<>>.
NULL == <<>>
Epoch == <<0, 0, 0>>

\* Time that passes between two readings of the clock.
ClockSteps == { <<0, 9, 500999>>, <<0, 43200, 0>> }

\* timedelta(days, seconds, microseconds) with Python's normalisation:
\* 0 <= microseconds < 10^6, 0 <= seconds < 86400, days unbounded.
timedelta(d, s, us) ==
    LET s1 == s + (us \div 1000000)
    IN  [days |-> d + (s1 \div 86400),
         seconds |-> s1 % 86400,
         microseconds |-> us % 1000000]

\* datetime + timedelta
TimeAdd(t, step) ==
    LET n == timedelta(t[1] + step[1], t[2] + step[2], t[3] + step[3])
    IN  <<n.days, n.seconds, n.microseconds>>

\* datetime - datetime
TimeSub(a, b) == timedelta(a[1] - b[1], a[2] - b[2], a[3] - b[3])

\* get_utc_timestamp(): a reading of the wall clock, later than the last one.
get_utc_timestamp(last) == { TimeAdd(last, step) : step \in ClockSteps }

VARIABLES users, store, now, ret, inflight
vars == <<users, store, now, ret, inflight>>

\* ------------------------------------------------------------- the tables
\* Faulty variant: the deviation column defaults to the target instead of 0
GameSessionModelDefaultDeviation(id, user_id, start_time) ==
    [id |-> id, user_id |-> user_id, start_time |-> start_time,
     stop_time |-> NULL, status |-> "active", duration |-> 0, deviation |-> 10000]

\* GameSessionModel(user_id=user_id) as it is after commit and refresh.
GameSessionModel(id, user_id, start_time) ==
    [id |-> id, user_id |-> user_id, start_time |-> start_time,
     stop_time |-> NULL, status |-> ACTIVE, duration |-> 0, deviation |-> 0]

\* The integer primary key the table assigns to an inserted row.
NextId(rows) == Len(rows) + 1

Insert(rows, row) == Append(rows, row)

Rows(rows) == { rows[i] : i \in 1..Len(rows) }

\* session.refresh(obj): the row with the object's primary key, read back.
Refresh(rows, id) == CHOOSE r \in Rows(rows) : r.id = id

\* Faulty variant: the user's latest session is opened again instead of a new row
ReopenGameSession(rows, user_id, t) ==
    LET mine == { i \in DOMAIN rows : rows[i].user_id = user_id }
        last == CHOOSE i \in mine : \A j \in mine : j <= i
    IN  IF mine = {}
        THEN [rows |-> Append(rows, [id |-> Len(rows) + 1, user_id |-> user_id,
                                     start_time |-> t, stop_time |-> <<>>,
                                     status |-> "active", duration |-> 0,
                                     deviation |-> 0]),
              id |-> Len(rows) + 1]
        ELSE [rows |-> [rows EXCEPT ![last].status = "active",
                                    ![last].start_time = t],
              id |-> rows[last].id]

\* Faulty variant: the insert is skipped when the user has an active session
AddGameSessionUnlessActive(rows, user_id, t) ==
    LET active == { i \in DOMAIN rows :
                      rows[i].user_id = user_id /\ rows[i].status = "active" }
    IN  IF active = {}
        THEN [rows |-> Append(rows, [id |-> Len(rows) + 1, user_id |-> user_id,
                                     start_time |-> t, stop_time |-> <<>>,
                                     status |-> "active", duration |-> 0,
                                     deviation |-> 0]),
              id |-> Len(rows) + 1]
        ELSE [rows |-> rows, id |-> rows[CHOOSE i \in active : TRUE].id]

\* game_session = GameSessionModel(user_id=user_id); session.add; session.commit:
\* the table after the insert, and the primary key the new row was given.
AddGameSession(rows, user_id, t) ==
    [rows |-> Insert(rows, GameSessionModel(NextId(rows), user_id, t)),
     id |-> NextId(rows)]

\* The response sent by the latest step (op "none" when it sent none).
\* op: the route; http: its status code; out: the game-session rows of the
\* body (none when the body has none); board: its statistics entries.
\* detail: the text of an error body; params: the request's path and query
\* parameters (the caller's identity comes with the token, not with these).
Response(op, http, detail, params, out, board) ==
    [op |-> op, http |-> http, detail |-> detail, params |-> params,
     out |-> out, board |-> board]

\* The requests being served at the same time, each with a database session
\* of its own (get_session); a request gives way to the others wherever its
\* handler awaits the database.
Calls == {1, 2}

\* Where a request stands: pc names the statement it continues with, user_id
\* is start_game_session's parameter and obj the object the handler loaded
\* (stop_game_session in models/games.py has no user_id).
Call(pc, user_id, obj) == [pc |-> pc, user_id |-> user_id, obj |-> obj]

Idle == Call("idle", 0, <<>>)

NoResponse == Response("none", 0, "", <<>>, <<>>, <<>>)

Init ==
    /\ users = <<>>
    /\ store = <<>>
    /\ now = Epoch
    /\ ret = NoResponse
    /\ inflight = [c \in Calls |-> Idle]

\* ---------------------------------------------------------------- users
\* users[id] is the username of the usermodel row with that primary key.
create_user(name) ==
    /\ Len(users) < MaxUsers
    /\ \A i \in 1..Len(users) : users[i] # name
    /\ users' = Append(users, name)
    /\ ret' = Response("register", HTTP_200_OK, "", <<>>, <<>>, <<>>)
    /\ UNCHANGED <<store, now, inflight>>

register_user ==
    /\ Len(users) < Len(Registrants)
    /\ create_user(Registrants[Len(users) + 1])

UserIds == 1..Len(users)

\* ---------------------------------------------------------------- start
\* Faulty variant: the status filter names the wrong status
StartQueryWrongStatus(rows, user_id) ==
    { r \in Rows(rows) : r.user_id = user_id /\ r.status = STOPPED }

\* select ... where user_id == user_id and status == ACTIVE
StartQuery(rows, user_id) ==
    { r \in Rows(rows) : r.user_id = user_id /\ r.status = ACTIVE }

start_game_session(user_id) ==
    \/ /\ StartQuery(store, user_id) # {}
       /\ \E has_active_game_session \in StartQuery(store, user_id) :
            ret' = Response("start", HTTP_200_OK, "", <<>>,
                            <<has_active_game_session>>, <<>>)
       /\ UNCHANGED <<users, store, now, inflight>>
    \/ /\ StartQuery(store, user_id) = {}
       /\ Len(store) < MaxSessions
       /\ \E t \in get_utc_timestamp(now) :
            LET added == AddGameSession(store, user_id, t)
                game_session == Refresh(added.rows, added.id)
            IN  /\ now' = t
                /\ store' = added.rows
                /\ ret' = Response("start", HTTP_200_OK, "", <<>>,
                                   <<game_session>>, <<>>)
       /\ UNCHANGED <<users, inflight>>

start_game == \E current_user \in UserIds : start_game_session(current_user)

\* ----------------------------------------------------------------- stop
\* Faulty variant: the status filter is missing
StopQueryAnyStatus(rows, game_session_id) ==
    { r \in Rows(rows) : r.id = game_session_id }

\* select ... where id == game_session_id and status == ACTIVE
\* The route passes the caller's user id as well (main.py); the function under
\* models/games.py declares no such parameter and its query names no user.
StopQuery(rows, game_session_id) ==
    { r \in Rows(rows) : r.id = game_session_id /\ r.status = ACTIVE }

\* session.add(game_session); session.commit(): the row with the object's
\* primary key takes the object's column values.
Update(rows, obj) ==
    [i \in 1..Len(rows) |-> IF rows[i].id = obj.id THEN obj ELSE rows[i]]

\* Faulty variant: the threshold is 30 minutes
StopStatusThirtyMinutes(delta_time) ==
    IF delta_time.seconds < 30 * 60 THEN "stopped" ELSE "expired"

\* STOPPED if delta_time.seconds < EXPIRED_THRESHOLD_IN_SECONDS else EXPIRED
StopStatus(delta_time) ==
    IF delta_time.seconds < EXPIRED_THRESHOLD_IN_SECONDS THEN STOPPED ELSE EXPIRED

\* Faulty variant: the days of the elapsed time are left out
calc_duration_without_days(delta_time) ==
    delta_time.seconds * 1000 + (delta_time.microseconds \div 1000)

calc_duration_in_milliseconds(delta_time) ==
    delta_time.days * 86400000 + delta_time.seconds * 1000
        + (delta_time.microseconds \div 1000)

Abs(x) == IF x < 0 THEN -x ELSE x

calc_deviation_in_milliseconds(duration) == Abs(duration - TargetMs)

\* Faulty variant: the first write of stop also moves start_time
StopFirstWriteRestart(game_session, t) ==
    [game_session EXCEPT !.stop_time = t, !.start_time = t]

\* First write of stop: stop_time only.
StopFirstWrite(game_session, t) == [game_session EXCEPT !.stop_time = t]

\* Second write of stop: status, duration and deviation from the row read back.
StopSecondWrite(game_session) ==
    LET delta_time == TimeSub(game_session.stop_time, game_session.start_time)
        duration == calc_duration_in_milliseconds(delta_time)
    IN  [game_session EXCEPT !.status = StopStatus(delta_time),
                             !.duration = duration,
                             !.deviation = calc_deviation_in_milliseconds(duration)]

stop_game_session(game_session_id, user_id) ==
    \/ /\ StopQuery(store, game_session_id) = {}
       /\ ret' = Response("stop", HTTP_404_NOT_FOUND, "No active session found.",
                          <<game_session_id>>, <<>>, <<>>)
       /\ UNCHANGED <<users, store, now, inflight>>
    \/ \E found \in StopQuery(store, game_session_id) :
       \E t \in get_utc_timestamp(now) :
            LET first == StopFirstWrite(found, t)
                afterFirst == Update(store, first)
                second == StopSecondWrite(Refresh(afterFirst, found.id))
                afterSecond == Update(afterFirst, second)
            IN  /\ now' = t
                /\ store' = afterSecond
                /\ ret' = Response("stop", HTTP_200_OK, "", <<game_session_id>>,
                                   <<Refresh(afterSecond, found.id)>>, <<>>)
                /\ UNCHANGED <<users, inflight>>

\* The ids requested are those of the rows and one that no row has.
stop_game ==
    \E current_user \in UserIds : \E game_session_id \in 1..(Len(store) + 1) :
        stop_game_session(game_session_id, current_user)

\* ----------------------------------------------------------- aggregation
RECURSIVE SumDeviation(_)
SumDeviation(seq) ==
    IF seq = <<>> THEN 0 ELSE Head(seq).deviation + SumDeviation(Tail(seq))

MinDeviation(seq) ==
    CHOOSE m \in { seq[i].deviation : i \in 1..Len(seq) } :
        \A i \in 1..Len(seq) : m <= seq[i].deviation

\* Faulty variant: the user filter is missing
SessionsOfAnyone(rows, user_id) == rows

\* select ... where user_id == user_id, in the table's order
SessionsOf(rows, user_id) == SelectSeq(rows, LAMBDA r : r.user_id = user_id)

\* Faulty variant: the aggregates leave out the sessions that are ACTIVE
GroupRowFinished(rows, user_id) ==
    LET mine == SelectSeq(rows, LAMBDA r : r.user_id = user_id /\ r.status # "active")
    IN  [user_id |-> user_id,
         total_games |-> Len(mine),
         avg_deviation |-> [num |-> SumDeviation(mine), den |-> Len(mine)],
         best_deviation |-> IF mine = <<>> THEN 0 ELSE MinDeviation(mine)]

\* One row of: count(id), avg(deviation), min(deviation) ... group by user_id.
\* The average is the exact quotient num/den.
GroupRow(rows, user_id) ==
    LET mine == SelectSeq(rows, LAMBDA r : r.user_id = user_id)
    IN  [user_id |-> user_id,
         total_games |-> Len(mine),
         avg_deviation |-> [num |-> SumDeviation(mine), den |-> Len(mine)],
         best_deviation |-> MinDeviation(mine)]

GroupByUser(rows) ==
    { GroupRow(rows, u) : u \in { r.user_id : r \in Rows(rows) } }

\* join(subquery, UserModel.id == subquery.c.user_id), as the response's entries
JoinUsers(us, groups) ==
    { [username |-> us[g.user_id],
       total_games |-> g.total_games,
       average_deviation |-> g.avg_deviation,
       best_deviation |-> g.best_deviation] :
      g \in { h \in groups : h.user_id \in DOMAIN us } }

AvgLeq(a, b) == a.num * b.den <= b.num * a.den

\* order_by(avg_deviation.asc()): every arrangement of the entries in which
\* the averages do not decrease; entries of equal average come in any order.
OrderByAvg(entries) ==
    { seq \in [1..Cardinality(entries) -> entries] :
        /\ \A i, j \in DOMAIN seq : i # j => seq[i] # seq[j]
        /\ \A i, j \in DOMAIN seq :
             i < j => AvgLeq(seq[i].average_deviation, seq[j].average_deviation) }

Min(a, b) == IF a < b THEN a ELSE b

\* offset(n).limit(m)
OffsetLimit(seq, n, m) == SubSeq(seq, n + 1, Min(n + m, Len(seq)))

\* The rows of calc_leaderboard's query before offset and limit, in one of
\* the orders the database may return them in.
LeaderboardQuery == OrderByAvg(JoinUsers(users, GroupByUser(store)))

\* calc_leaderboard, with `ordered` the order the database chose.
calc_leaderboard(ordered, page, per_page) ==
    OffsetLimit(ordered, (page - 1) * per_page, per_page)

get_leaderboard ==
    LET orders == LeaderboardQuery
    IN  \E ordered \in orders :
        \E page \in 1..MaxPage : \E per_page \in 1..MaxPerPage :
            /\ ret' = Response("leaderboard", HTTP_200_OK, "", <<page, per_page>>,
                               <<>>, calc_leaderboard(ordered, page, per_page))
            /\ UNCHANGED <<users, store, now, inflight>>

\* The user's statistics entry and the user's sessions.
user_game_history(user_id) ==
    [stats |-> JoinUsers(users, { g \in GroupByUser(store) : g.user_id = user_id }),
     history |-> SessionsOf(store, user_id)]

get_user_by_id(user_id) == user_id \in DOMAIN users

has_game_history(user_id) == SessionsOf(store, user_id) # <<>>

\* Faulty variant: the two checks are made in the other order
get_user_game_history_games_first(user_id) ==
    /\ \/ /\ ~has_game_history(user_id)
          /\ ret' = Response("history", HTTP_404_NOT_FOUND, "No games found.",
                             <<user_id>>, <<>>, <<>>)
       \/ /\ has_game_history(user_id)
          /\ ~get_user_by_id(user_id)
          /\ ret' = Response("history", HTTP_404_NOT_FOUND, "No user found.",
                             <<user_id>>, <<>>, <<>>)
       \/ /\ has_game_history(user_id)
          /\ get_user_by_id(user_id)
          /\ \E stats \in user_game_history(user_id).stats :
                ret' = Response("history", HTTP_200_OK, "", <<user_id>>,
                                user_game_history(user_id).history, <<stats>>)
    /\ UNCHANGED <<users, store, now, inflight>>

get_user_game_history(user_id) ==
    /\ \/ /\ ~get_user_by_id(user_id)
          /\ ret' = Response("history", HTTP_404_NOT_FOUND, "No user found.",
                             <<user_id>>, <<>>, <<>>)
       \/ /\ get_user_by_id(user_id)
          /\ ~has_game_history(user_id)
          /\ ret' = Response("history", HTTP_404_NOT_FOUND, "No games found.",
                             <<user_id>>, <<>>, <<>>)
       \/ /\ get_user_by_id(user_id)
          /\ has_game_history(user_id)
          /\ \E stats \in user_game_history(user_id).stats :
                ret' = Response("history", HTTP_200_OK, "", <<user_id>>,
                                user_game_history(user_id).history, <<stats>>)
    /\ UNCHANGED <<users, store, now, inflight>>

\* The ids requested are those of the users and one that no user has.
analytics_user == \E user_id \in 1..(Len(users) + 1) : get_user_game_history(user_id)

Next ==
    \/ register_user
    \/ start_game
    \/ stop_game
    \/ get_leaderboard
    \/ analytics_user

Spec == Init /\ [][Next]_vars

\* The requests that write: the two read-only routes leave users, store and
\* the clock as they are, so the tables reached are the same as under Spec.
NextGames ==
    \/ register_user
    \/ start_game
    \/ stop_game

SpecGames == Init /\ [][NextGames]_vars

\* ------------------------------------------------- requests that interleave
\* The handlers again, one action per stretch between two awaits of the
\* database: a request runs its query, and writes with each of its commits.

\* UPDATE ... SET stop_time = ? WHERE id = ?: the flush writes the columns
\* the handler assigned since the object was loaded, not the whole row.
UpdateStopTime(rows, obj) ==
    [i \in 1..Len(rows) |->
        IF rows[i].id = obj.id
        THEN [rows[i] EXCEPT !.stop_time = obj.stop_time]
        ELSE rows[i]]

\* UPDATE ... SET status = ?, duration = ?, deviation = ? WHERE id = ?
UpdateResult(rows, obj) ==
    [i \in 1..Len(rows) |->
        IF rows[i].id = obj.id
        THEN [rows[i] EXCEPT !.status = obj.status,
                             !.duration = obj.duration,
                             !.deviation = obj.deviation]
        ELSE rows[i]]

\* A request that arrives is served in the first free place: which place it
\* takes has no effect on what it does.
Accepts(c) ==
    /\ inflight[c].pc = "idle"
    /\ \A d \in Calls : d < c => inflight[d].pc # "idle"

\* Requests that passed start's query and have not inserted yet.
PendingInserts == { c \in Calls : inflight[c].pc = "start_commit" }

\* start_game_session up to its return or to the end of its query.
start_game_session_exec(c, user_id) ==
    /\ Accepts(c)
    /\ \/ /\ StartQuery(store, user_id) # {}
          /\ \E has_active_game_session \in StartQuery(store, user_id) :
               ret' = Response("start", HTTP_200_OK, "", <<>>,
                               <<has_active_game_session>>, <<>>)
          /\ UNCHANGED <<users, store, now, inflight>>
       \/ /\ StartQuery(store, user_id) = {}
          /\ Len(store) + Cardinality(PendingInserts) < MaxSessions
          /\ inflight' = [inflight EXCEPT ![c] = Call("start_commit", user_id, <<>>)]
          /\ ret' = NoResponse
          /\ UNCHANGED <<users, store, now>>

\* start_game_session from the construction of the new row to its return.
start_game_session_commit(c) ==
    /\ inflight[c].pc = "start_commit"
    /\ \E t \in get_utc_timestamp(now) :
         LET added == AddGameSession(store, inflight[c].user_id, t)
             game_session == Refresh(added.rows, added.id)
         IN  /\ now' = t
             /\ store' = added.rows
             /\ ret' = Response("start", HTTP_200_OK, "", <<>>,
                                <<game_session>>, <<>>)
    /\ inflight' = [inflight EXCEPT ![c] = Idle]
    /\ UNCHANGED users

\* stop_game_session up to its return of None or to the end of its query.
stop_game_session_exec(c, game_session_id, user_id) ==
    /\ Accepts(c)
    /\ \/ /\ StopQuery(store, game_session_id) = {}
          /\ ret' = Response("stop", HTTP_404_NOT_FOUND, "No active session found.",
                             <<game_session_id>>, <<>>, <<>>)
          /\ UNCHANGED <<users, store, now, inflight>>
       \/ /\ \E game_session \in StopQuery(store, game_session_id) :
               inflight' = [inflight EXCEPT
                               ![c] = Call("stop_commit1", 0, <<game_session>>)]
          /\ ret' = NoResponse
          /\ UNCHANGED <<users, store, now>>

\* stop_game_session from the assignment of stop_time through the first
\* commit and the refresh that follows it.
stop_game_session_commit1(c) ==
    /\ inflight[c].pc = "stop_commit1"
    /\ \E t \in get_utc_timestamp(now) :
         LET game_session == StopFirstWrite(inflight[c].obj[1], t)
             afterFirst == UpdateStopTime(store, game_session)
         IN  /\ now' = t
             /\ store' = afterFirst
             /\ inflight' = [inflight EXCEPT
                               ![c] = Call("stop_commit2", 0,
                                           <<Refresh(afterFirst, game_session.id)>>)]
    /\ ret' = NoResponse
    /\ UNCHANGED users

\* stop_game_session from the computation of the result through the second
\* commit, the refresh and the return.
stop_game_session_commit2(c) ==
    /\ inflight[c].pc = "stop_commit2"
    /\ LET game_session == StopSecondWrite(inflight[c].obj[1])
           afterSecond == UpdateResult(store, game_session)
       IN  /\ store' = afterSecond
           /\ ret' = Response("stop", HTTP_200_OK, "", <<game_session.id>>,
                              <<Refresh(afterSecond, game_session.id)>>, <<>>)
    /\ inflight' = [inflight EXCEPT ![c] = Idle]
    /\ UNCHANGED <<users, now>>

start_exec == \E c \in Calls : \E current_user \in UserIds :
    start_game_session_exec(c, current_user)

start_commit == \E c \in Calls : start_game_session_commit(c)

stop_exec ==
    \E c \in Calls : \E current_user \in UserIds :
        \E game_session_id \in 1..(Len(store) + 1) :
            stop_game_session_exec(c, game_session_id, current_user)

stop_commit1 == \E c \in Calls : stop_game_session_commit1(c)

stop_commit2 == \E c \in Calls : stop_game_session_commit2(c)

\* A registration touches the usermodel table alone, which no request in
\* flight reads again: it is taken between the game requests.
register_user_between ==
    /\ \A c \in Calls : inflight[c].pc = "idle"
    /\ register_user

NextSteps ==
    \/ register_user_between
    \/ start_exec
    \/ start_commit
    \/ stop_exec
    \/ stop_commit1
    \/ stop_commit2

SpecSteps == Init /\ [][NextSteps]_vars

\* Starts that interleave, with every stop served in one piece.
NextStarts ==
    \/ register_user_between
    \/ start_exec
    \/ start_commit
    \/ stop_game

SpecStarts == Init /\ [][NextStarts]_vars

\* ================================================================ claims
ActiveOf(rows, u) ==
    { i \in DOMAIN rows : rows[i].user_id = u /\ rows[i].status = "active" }

ActiveWithId(rows, sid) ==
    { i \in DOMAIN rows : rows[i].id = sid /\ rows[i].status = "active" }

SessionIds == 1..(MaxSessions + 1)

\* C1: after any sequence of start and stop requests, each run to completion,
\* every user has at most one session with status ACTIVE in the store.
C1_AtMostOneActive ==
    \A u \in UserIds : Cardinality(ActiveOf(store, u)) <= 1

\* A user started again after a stop: one stopped and one active session.
C1_Witness ==
    /\ ret.op = "start"
    /\ \E i, j \in DOMAIN store :
          /\ store[i].user_id = store[j].user_id
          /\ store[i].status = "stopped"
          /\ store[j].status = "active"

\* C2: start(u) for a user who has an ACTIVE session returns that session and
\* writes nothing; a start(u) that follows a start(u) returns the same session.
C2_StartIdempotent ==
    [][ret'.op = "start" => \A u \in UserIds :
         (ActiveOf(store, u) # {} /\ start_game_session(u)) =>
            /\ store' = store
            /\ now' = now
            /\ \E i \in ActiveOf(store, u) : ret'.out = <<store[i]>>
            /\ (ret.op = "start" /\ ret.out[1].user_id = u) =>
                   ret'.out[1].id = ret.out[1].id]_vars

\* A start was answered with the user's existing active session (it was not
\* created by this request), while the store also holds an older session.
C2_Witness ==
    /\ ret.op = "start"
    /\ Len(store) = 2
    /\ ret.out = <<store[2]>>
    /\ store[2].start_time # now

\* C3: start(u) for a user without ACTIVE session adds exactly one row (user u,
\* ACTIVE, duration 0, deviation 0, no stop_time, an id no row had), returns
\* it, and leaves every other row as it was.
C3_StartCreates ==
    [][ret'.op = "start" => \A u \in UserIds :
         (ActiveOf(store, u) = {} /\ start_game_session(u)) =>
            /\ Len(store') = Len(store) + 1
            /\ SubSeq(store', 1, Len(store)) = store
            /\ LET new == store'[Len(store')]
               IN  /\ new.user_id = u
                   /\ new.status = "active"
                   /\ new.duration = 0
                   /\ new.deviation = 0
                   /\ new.stop_time = <<>>
                   /\ \A i \in DOMAIN store : store[i].id # new.id
                   /\ ret'.out = <<new>>
                   /\ ret'.http = 200]_vars

\* A second session was created next to an existing one.
C3_Witness ==
    /\ ret.op = "start"
    /\ Len(store) = 2
    /\ ret.out = <<store[2]>>
    /\ store[2].start_time = now

\* C4: stop on an id that no row has, or whose row is STOPPED or EXPIRED,
\* answers 404 with no session and leaves the store unchanged.
C4_StopNotFound ==
    [][ret'.op = "stop" => \A sid \in SessionIds : \A u \in UserIds :
         (ret'.params = <<sid>> /\ ActiveWithId(store, sid) = {}
            /\ stop_game_session(sid, u)) =>
            /\ ret'.http = 404
            /\ ret'.out = <<>>
            /\ store' = store
            /\ now' = now]_vars

\* A stop of an already stopped session was answered 404.
C4_Witness ==
    /\ ret.op = "stop"
    /\ ret.http = 404
    /\ \E i \in DOMAIN store :
          store[i].id = ret.params[1] /\ store[i].status = "stopped"
\* The whole time from start to stop in whole milliseconds, from the two
\* timestamps <<day, second, microsecond>>.
ElapsedMs(start_time, stop_time) ==
    (stop_time[1] - start_time[1]) * 86400000
        + (stop_time[2] - start_time[2]) * 1000
        + ((stop_time[3] - start_time[3]) \div 1000)

Stopped(rows) == { i \in DOMAIN rows : rows[i].status # "active" }

\* C5 (as claimed): stop(sessionId, userId) on an ACTIVE session of another
\* user answers 404 and leaves the store unchanged.
C5_StopOnlyOwnSession ==
    [][ret'.op = "stop" => \A sid \in SessionIds : \A u \in UserIds :
         (/\ ret'.params = <<sid>>
          /\ \E i \in ActiveWithId(store, sid) : store[i].user_id # u
          /\ stop_game_session(sid, u)) =>
            /\ ret'.http = 404
            /\ store' = store]_vars

\* C6: after a successful stop, duration is the whole time from start_time to
\* stop_time in whole milliseconds and deviation is abs(duration - 10000); a
\* stop 9.5 s after the start gives 9500, 500 and STOPPED.
C6_DurationAndDeviation ==
    \A i \in Stopped(store) :
        LET ms == ElapsedMs(store[i].start_time, store[i].stop_time)
        IN  /\ store[i].duration = ms
            /\ store[i].deviation = (IF ms < 10000 THEN 10000 - ms ELSE ms - 10000)
            /\ ms = 9500 =>
                  /\ store[i].duration = 9500
                  /\ store[i].deviation = 500
                  /\ store[i].status = "stopped"

\* One session was stopped 9.5 s after its start, another one a day or more
\* after its start.
C6_Witness ==
    /\ ret.op = "stop"
    /\ ret.http = 200
    /\ \E i, j \in Stopped(store) :
          /\ store[i].duration = 9500 /\ store[i].deviation = 500
          /\ store[j].duration >= 86400000

\* C7 (as claimed): a stopped session is STOPPED if the whole time since
\* start_time is below 1800 s and EXPIRED otherwise.
C7_ExpiredAfterThirtyMinutes ==
    \A i \in Stopped(store) :
        store[i].status =
            (IF ElapsedMs(store[i].start_time, store[i].stop_time) < 1800 * 1000
             THEN "stopped" ELSE "expired")

\* C8: a status only moves ACTIVE -> STOPPED or ACTIVE -> EXPIRED; a session
\* that has left ACTIVE keeps its status under every request, and no row
\* disappears.
C8_StatusTerminal ==
    [][\A i \in DOMAIN store :
         \E j \in DOMAIN store' :
            /\ store'[j].id = store[i].id
            /\ store[i].status # "active" => store'[j].status = store[i].status
            /\ store'[j].status # store[i].status =>
                  /\ store[i].status = "active"
                  /\ store'[j].status \in {"stopped", "expired"}]_vars

\* After a session was stopped its user started again: the stopped session is
\* still stopped next to the new active one, and a stop of it was refused.
C8_Witness ==
    /\ ret.op = "stop"
    /\ ret.http = 404
    /\ \E i, j \in DOMAIN store :
          /\ store[i].id = ret.params[1]
          /\ store[i].status = "stopped"
          /\ store[j].user_id = store[i].user_id
          /\ store[j].status = "active"
RECURSIVE DeviationSum(_, _)
DeviationSum(rows, S) ==
    IF S = {} THEN 0
    ELSE LET i == CHOOSE k \in S : TRUE
         IN  rows[i].deviation + DeviationSum(rows, S \ {i})

Usernames(board) == { board[k].username : k \in DOMAIN board }

\* The entries of a page are in ascending order of average deviation, at most
\* per_page many, one per user, and as many as the users with sessions leave
\* after the skipped (page - 1) * per_page.
PageShape(board, page, per_page) ==
    LET players == { store[i].user_id : i \in DOMAIN store }
        left == Cardinality(players) - (page - 1) * per_page
    IN  /\ Len(board) <= per_page
        /\ Len(board) = (IF left < 0 THEN 0 ELSE IF left < per_page THEN left ELSE per_page)
        /\ Cardinality(Usernames(board)) = Len(board)
        /\ \A k \in DOMAIN board : \E u \in players : users[u] = board[k].username
        /\ \A k, l \in DOMAIN board :
              k < l => board[k].average_deviation.num * board[l].average_deviation.den
                         <= board[l].average_deviation.num * board[k].average_deviation.den

\* The response before this one was the page before this one, with the same
\* per_page (no request came between the two, so the store is the same).
FollowsPreviousPage ==
    /\ ret.op = "leaderboard"
    /\ ret'.op = "leaderboard"
    /\ ret'.params = <<ret.params[1] + 1, ret.params[2]>>

\* C9 (as claimed): a leaderboard page has at most perPage entries, one per
\* user, ascending by averageDeviation, after the skipped entries; page p + 1
\* requested after page p shares no user with it, ties in averageDeviation
\* included.
C9_LeaderboardPages ==
    [][ret'.op = "leaderboard" =>
         /\ PageShape(ret'.board, ret'.params[1], ret'.params[2])
         /\ FollowsPreviousPage =>
               Usernames(ret.board) \cap Usernames(ret'.board) = {}]_vars

\* C10: userHistory(u) for a user with sessions returns the number of u's
\* sessions, the mean and the minimum of their deviations, and exactly u's
\* sessions as history.
C10_UserHistory ==
    (ret.op = "history" /\ ret.http = 200) =>
        LET u == ret.params[1]
            mine == { i \in DOMAIN store : store[i].user_id = u }
            n == Cardinality(mine)
        IN  /\ n >= 1
            /\ Len(ret.board) = 1
            /\ ret.board[1].total_games = n
            /\ ret.board[1].average_deviation.den > 0
            /\ ret.board[1].average_deviation.num * n
                  = DeviationSum(store, mine) * ret.board[1].average_deviation.den
            /\ \E i \in mine : store[i].deviation = ret.board[1].best_deviation
            /\ \A i \in mine : ret.board[1].best_deviation <= store[i].deviation
            /\ Len(ret.out) = n
            /\ { ret.out[k] : k \in DOMAIN ret.out } = { store[i] : i \in mine }

\* The history of a user with two sessions of different deviation.
C10_Witness ==
    /\ ret.op = "history"
    /\ ret.http = 200
    /\ Len(ret.out) = 2
    /\ ret.out[1].deviation # ret.out[2].deviation

\* C11: hasHistory(u) is true exactly when the store holds a session of u:
\* false for a user who has just registered, true after a start(u), and once
\* true it stays true under every later request.
C11_HasHistory ==
    [][/\ \A u \in 1..Len(users') :
             has_game_history(u)' <=> (\E i \in DOMAIN store' : store'[i].user_id = u)
       /\ \A u \in UserIds : has_game_history(u) => has_game_history(u)'
       /\ ret'.op = "register" => ~has_game_history(Len(users) + 1)'
       /\ ret'.op = "start" =>
             \A u \in UserIds : start_game_session(u) => has_game_history(u)']_vars

\* A user's only session was stopped and the user still has history, next to
\* a registered user who has none.
C11_Witness ==
    /\ ret.op = "stop"
    /\ ret.http = 200
    /\ \E u, v \in UserIds :
          /\ has_game_history(u)
          /\ ActiveOf(store, u) = {}
          /\ ~has_game_history(v)

\* C12: the analytics route answers 404 'No user found.' when the id names no
\* user, otherwise 404 'No games found.' when the user has no session, and
\* returns userHistory's result only when the user exists and has a session.
C12_AnalyticsGuards ==
    ret.op = "history" =>
        LET u == ret.params[1]
            known == u \in 1..Len(users)
            played == \E i \in DOMAIN store : store[i].user_id = u
        IN  /\ ~known => (ret.http = 404 /\ ret.detail = "No user found.")
            /\ (known /\ ~played) => (ret.http = 404 /\ ret.detail = "No games found.")
            /\ (known /\ played) => (ret.http = 200 /\ Len(ret.board) = 1)
            /\ ret.http = 404 => (ret.out = <<>> /\ ret.board = <<>>)

\* The history of a user without sessions was refused while another user has
\* sessions.
C12_Witness ==
    /\ ret.op = "history"
    /\ ret.detail = "No games found."
    /\ store # <<>>

\* C13 (as claimed): in every state of the store, the state between the two
\* commits of a stop included, a session has no stop_time exactly when its
\* status is ACTIVE.
C13_StopTimeIffNotActive ==
    \A i \in DOMAIN store :
        (store[i].stop_time = <<>>) <=> (store[i].status = "active")

\* C15: the insert of a start is a step of its own after the query: a start
\* that found no active session inserts and returns a new ACTIVE row of its
\* user whatever has been committed since its query, so two starts of one
\* user that both ran the query first both create a session.
C15_RacingStartsBothInsert ==
    [][\A c \in Calls :
         (inflight[c].pc = "start_commit" /\ inflight'[c].pc = "idle") =>
            /\ Len(store') = Len(store) + 1
            /\ SubSeq(store', 1, Len(store)) = store
            /\ store'[Len(store')].user_id = inflight[c].user_id
            /\ store'[Len(store')].status = "active"
            /\ ret'.op = "start"
            /\ ret'.out = <<store'[Len(store')]>>]_vars

\* Two starts of one user were both answered with a new session: the user has
\* two ACTIVE sessions.
C15_Witness ==
    /\ ret.op = "start"
    /\ \E u \in UserIds : Cardinality(ActiveOf(store, u)) >= 2

\* C17 (as claimed): a stop_time that was written is never written again, and
\* a stop returns a session only if no other stop has returned it before (the
\* session is still ACTIVE when the stop makes its last commit), also when
\* stops of one session interleave at their query and their two commits.
C17_OneStopReturns ==
    [][/\ \A i \in DOMAIN store :
             store[i].stop_time # <<>> => store'[i].stop_time = store[i].stop_time
       /\ \A c \in Calls :
             (inflight[c].pc = "stop_commit2" /\ inflight'[c].pc = "idle") =>
                ActiveWithId(store, inflight[c].obj[1].id) # {}]_vars

\* C14: under any sequence of start and stop requests a session keeps its id,
\* user_id and start_time, and its stop_time, status, duration and deviation
\* are written once: a row changes only in the step that stops it, from the
\* values it was created with, and never after.
C14_WrittenOnce ==
    [][\A i \in DOMAIN store :
         /\ i \in DOMAIN store'
         /\ store'[i].id = store[i].id
         /\ store'[i].user_id = store[i].user_id
         /\ store'[i].start_time = store[i].start_time
         /\ store'[i] # store[i] =>
               /\ ret'.op = "stop"
               /\ store[i].stop_time = <<>>
               /\ store[i].status = "active"
               /\ store[i].duration = 0
               /\ store[i].deviation = 0
               /\ store'[i].stop_time = now'
               /\ store'[i].status # "active"
               /\ \A j \in DOMAIN store : j # i => store'[j] = store[j]]_vars

\* Both sessions of the store were stopped, the second one after the first.
C14_Witness ==
    /\ ret.op = "stop"
    /\ ret.http = 200
    /\ Len(store) = 2
    /\ store[1].status = "stopped"
    /\ ret.out = <<store[2]>>
    /\ store[1].stop_time # store[2].stop_time

\* The user with the given username.
UserNamed(name) == CHOOSE u \in 1..Len(users) : users[u] = name

\* C16: the aggregates of the leaderboard and of userHistory are taken over
\* all sessions of the user whatever their status: an ACTIVE session counts
\* in total_games and enters the mean and the minimum with deviation 0, so
\* the best deviation of a user with an ACTIVE session is 0.
C16_ActiveSessionsCount ==
    (ret.op \in {"leaderboard", "history"} /\ ret.http = 200) =>
        \A k \in DOMAIN ret.board :
            LET u == UserNamed(ret.board[k].username)
                mine == { i \in DOMAIN store : store[i].user_id = u }
            IN  /\ ret.board[k].total_games = Cardinality(mine)
                /\ ret.board[k].average_deviation.num * Cardinality(mine)
                      = DeviationSum(store, mine) * ret.board[k].average_deviation.den
                /\ \A i \in ActiveOf(store, u) : store[i].deviation = 0
                /\ ActiveOf(store, u) # {} => ret.board[k].best_deviation = 0

\* A leaderboard entry of a user with a stopped session of deviation above 0
\* and an ACTIVE session: two games, best deviation 0.
C16_Witness ==
    /\ ret.op = "leaderboard"
    /\ \E k \in DOMAIN ret.board :
          /\ ret.board[k].total_games = 2
          /\ ret.board[k].best_deviation = 0
          /\ ret.board[k].average_deviation.num > 0
          /\ ActiveOf(store, UserNamed(ret.board[k].username)) # {}

Players == { users[store[i].user_id] : i \in DOMAIN store }

\* C19 (as claimed): with the store unchanged and per_page fixed, the pages
\* 1, 2, ... of the leaderboard together hold exactly the users who have a
\* session, each of them once; a user without sessions is on no page. Checked
\* on page 1 followed by page 2 when two pages have room for every player.
C19_PagesCoverPlayersOnce ==
    [][ret'.op = "leaderboard" =>
         /\ Usernames(ret'.board) \subseteq Players
         /\ (FollowsPreviousPage /\ ret.params[1] = 1
               /\ Cardinality(Players) <= 2 * ret.params[2]) =>
               /\ Usernames(ret.board) \cup Usernames(ret'.board) = Players
               /\ Len(ret.board) + Len(ret'.board) = Cardinality(Players)]_vars
====
